---- MODULE Spec2Model ----
(***************************************************************************)
(* A model of the BBMM session of KAGPR (src/BBMM/regression/bbmm.py): the *)
(* partition built by initialize, the blocked symmetric matrix product on  *)
(* one and on several devices, the Nystroem-preconditioned solve and the   *)
(* session fields the calls read and write.                                *)
(*                                                                         *)
(* Arrays are 0-based functions, as numpy's.  A matrix is a function from  *)
(* row numbers to rows, a row a function from column numbers to scalars.   *)
(* The scalars are the field of integers modulo the prime P, standing for  *)
(* float64: sums, products and inverses are exact, so what is settled here *)
(* is the algebra of the code (which blocks are added where, which system  *)
(* is solved), not its rounding.                                           *)
(***************************************************************************)
EXTENDS Integers, Sequences, FiniteSets, TLC

VARIABLES env, self, np_random, last, mv, twin

vars == <<env, self, np_random, last, mv, twin>>

(***************************************************************************)
(* Bounds of the model.                                                    *)
(***************************************************************************)
MaxN == 3
MaxBatch == 3
MaxGPU == 2
MaxNout == 2

(***************************************************************************)
(* Scalars.                                                                *)
(***************************************************************************)
P == 5
Fld == 0..(P - 1)
Add(a, b) == (a + b) % P
Mul(a, b) == (a * b) % P
Neg(a) == (P - a) % P
Sub(a, b) == Add(a, Neg(b))
InvTable == [a \in 1..(P - 1) |-> CHOOSE b \in Fld : Mul(a, b) = 1]
Inv(a) == InvTable[a]
Div(a, b) == Mul(a, Inv(b))
\* An integer, possibly negative, as a scalar.
Scalar(z) == IF z >= 0 THEN z % P ELSE Neg((0 - z) % P)

(***************************************************************************)
(* numpy arrays.                                                           *)
(***************************************************************************)
Range0(n) == 0..(n - 1)
len(a) == Cardinality(DOMAIN a)
ncols(m) == IF len(m) = 0 THEN 0 ELSE len(m[0])
\* An array holds its elements: they are computed once, when it is built.
ndarray(a) == IF a = a THEN a ELSE <<>>
zeros(rows, cols) == ndarray([r \in Range0(rows) |-> [c \in Range0(cols) |-> 0]])
\* a + b, elementwise
mat_add(a, b) == ndarray([r \in DOMAIN a |-> [c \in DOMAIN a[r] |-> Add(a[r][c], b[r][c])]])
mat_sub(a, b) == ndarray([r \in DOMAIN a |-> [c \in DOMAIN a[r] |-> Sub(a[r][c], b[r][c])]])
\* a * x for a scalar x
mat_scale(a, x) == ndarray([r \in DOMAIN a |-> [c \in DOMAIN a[r] |-> Mul(a[r][c], x)]])
\* a[idx]: the rows of a named by the index array idx, in idx's order
take(a, idx) == ndarray([p \in DOMAIN idx |-> a[idx[p]]])
\* a[:, lo:hi]
cols(a, lo, hi) == ndarray([r \in DOMAIN a |-> [c \in Range0(hi - lo) |-> a[r][lo + c]]])
\* np.concatenate((a, b), axis=1)
hstack(a, b) ==
    ndarray([r \in DOMAIN a |-> [c \in Range0(ncols(a) + ncols(b)) |->
        IF c < ncols(a) THEN a[r][c] ELSE b[r][c - ncols(a)]]])
\* np.concatenate of 1-d index arrays a and b
concat(a, b) ==
    ndarray([p \in Range0(len(a) + len(b)) |-> IF p < len(a) THEN a[p] ELSE b[p - len(a)]])
RECURSIVE sum_upto(_, _)
\* sum of f[0], ..., f[n-1]
sum_upto(f, n) == IF n = 0 THEN 0 ELSE Add(sum_upto(f, n - 1), f[n - 1])
\* m.dot(v)
dot(m, v) ==
    ndarray([r \in DOMAIN m |-> [c \in Range0(ncols(v)) |->
        sum_upto([q \in DOMAIN v |-> Mul(m[r][q], v[q][c])], len(v))]])
\* m.T for a matrix of nr rows and nc columns
transpose(m, nr, nc) == ndarray([c \in Range0(nc) |-> [r \in Range0(nr) |-> m[r][c]]])
\* a[idx] += b: row idx[p] of a receives row p of b (the indices are distinct)
add_at(a, idx, b) ==
    ndarray([r \in DOMAIN a |->
        IF \E p \in DOMAIN idx : idx[p] = r
        THEN LET p == CHOOSE q \in DOMAIN idx : idx[q] = r
             IN  [c \in DOMAIN a[r] |-> Add(a[r][c], b[p][c])]
        ELSE a[r]])

(***************************************************************************)
(* The kernel: a stationary kernel of stationary.py on 1-d integer points, *)
(* with parameters ps = (variance, lengthscale).  Profile stands for       *)
(* exp(-r^2/2).  With nout > 1 the kernel is the collaborator's multi-     *)
(* output kernel: K(X1, X2) has nout*len(X1) rows and nout*len(X2)         *)
(* columns, channel by channel, and is symmetric as a whole only:          *)
(* K(X1, X2) = K(X2, X1)^T.                                                *)
(***************************************************************************)
None == 0 - 1
Profile == [d \in Fld |-> <<1, 4, 1, 3, 0>>[d + 1]]
abs(z) == IF z >= 0 THEN z ELSE 0 - z
r(kernel, x1, x2) == Div(Scalar(abs(x1 - x2)), kernel.lengthscale)
K_of_r(kernel, d) == Mul(Profile[d], kernel.variance)
dK_dr(kernel, d) == Neg(Mul(Mul(Profile[d], d), kernel.variance))
dr_dl(kernel, d) == Div(Neg(d), kernel.lengthscale)
dK_dl(kernel, x1, x2) == Mul(dK_dr(kernel, r(kernel, x1, x2)), dr_dl(kernel, r(kernel, x1, x2)))
dK_dv(kernel, x1, x2) == Div(K_of_r(kernel, r(kernel, x1, x2)), kernel.variance)
\* The attributes a kernel object has.
kernel_attrs == {"K", "dK_dps", "ps", "nout", "likelihood_split"}
nps == 2
\* method: [f |-> "K"] or [f |-> "dK_dps", i |-> i], a bound method of the kernel
method_K == [f |-> "K", i |-> 0]
method_dK_dps(i) == [f |-> "dK_dps", i |-> i]
stationary_elem(kernel, method, x1, x2) ==
    IF method.f = "K" THEN K_of_r(kernel, r(kernel, x1, x2))
    ELSE IF method.i = 0 THEN dK_dv(kernel, x1, x2)
    ELSE dK_dl(kernel, x1, x2)
\* Entry (channel c1, point x1; channel c2, point x2) of the kernel matrix.
kernel_elem(kernel, method, c1, x1, c2, x2) ==
    IF c1 = c2 THEN Mul(stationary_elem(kernel, method, x1, x2), Scalar(1 + c1))
    ELSE Mul(stationary_elem(kernel, method, x1, x2), Scalar((c1 - c2) * (x1 - x2)))
\* method(X1, X2) for point arrays X1, X2
kernel_call(kernel, method, X1, X2) ==
    ndarray([p \in Range0(kernel.nout * len(X1)) |-> [q \in Range0(kernel.nout * len(X2)) |->
        kernel_elem(kernel, method,
                    p \div len(X1), X1[p % len(X1)],
                    q \div len(X2), X2[q % len(X2)])]])

(***************************************************************************)
(* BBMM.__init__ and BBMM.initialize.  attrs is the set of attributes the  *)
(* object has: reading one it has not raises AttributeError.               *)
(***************************************************************************)
BBMM(kernel, nGPU, verbose) ==
    [GPU |-> nGPU > 0, nGPU |-> nGPU, verbose |-> verbose, kernel |-> kernel,
     attrs |-> {"GPU", "nGPU", "verbose", "kernel"},
     X_CPU |-> <<>>, X |-> <<>>, N |-> 0, batch |-> None, N_out |-> 0, noise |-> 0,
     K_full |-> <<>>, dK_dps_full |-> <<>>,
     division |-> <<>>, division_out |-> <<>>, n_division |-> 0,
     iter |-> 0, GRAM_printed |-> FALSE,
     main_GPU |-> FALSE, pred_nystroem |-> <<>>,
     Y |-> <<>>, random_vectors |-> <<>>, krylov |-> <<>>, converged |-> FALSE,
     gradients |-> <<>>, w |-> <<>>]

min(a, b) == IF a <= b THEN a ELSE b
\* len(range(start, stop, step)) for step > 0
range_len(start, stop, step) == IF stop > start THEN (stop - start + step - 1) \div step ELSE 0
\* A variant whose blocks all have batch elements, the last one too.
np_split_arange_even(N, batch) ==
    [b \in Range0(range_len(batch, N, batch) + 1) |->
        [t \in Range0(batch) |-> batch * b + t]]
\* np.split(np.arange(N), range(batch, N, batch))
np_split_arange(N, batch) ==
    LET cuts == range_len(batch, N, batch)
        lo(b) == IF b = 0 THEN 0 ELSE batch * b
        hi(b) == IF b = cuts THEN N ELSE batch * (b + 1)
    IN  [b \in Range0(cuts + 1) |-> [t \in Range0(hi(b) - lo(b)) |-> lo(b) + t]]
\* A variant that strides the channels by 1 instead of by N.
division_out_unstrided(block, N, nout) ==
    [t \in Range0(nout * len(block)) |-> block[t % len(block)] + (t \div len(block))]
RECURSIVE division_out_of(_, _, _)
\* np.concatenate([block + j * N for j in range(nout)])
division_out_of(block, N, nout) ==
    IF nout = 0 THEN <<>>
    ELSE concat(division_out_of(block, N, nout - 1),
                [t \in DOMAIN block |-> block[t] + (nout - 1) * N])
\* The device replicas of X, or X itself on the CPU.
X_of(s, device) == IF s.GPU THEN s.X[device] ELSE s.X

\* initialize(X, noise, batch): the session after the call, and what it raised.
initialize(s, X, noise, batch) ==
    LET nout == s.kernel.nout
        s1 == [s EXCEPT !.X_CPU = X,
                        !.X = IF s.GPU THEN [d \in Range0(s.nGPU) |-> X] ELSE X,
                        !.N = len(X),
                        !.batch = IF batch = None THEN None ELSE min(batch \div nout, len(X)),
                        !.N_out = len(X) * nout,
                        !.noise = noise,
                        !.attrs = @ \cup {"X_CPU", "X", "dtype", "N", "batch", "N_out", "noise"}]
        done(t) == [t EXCEPT !.iter = 0, !.GRAM_printed = FALSE,
                             !.attrs = @ \cup {"iter", "total_time_Kx", "total_time_pred",
                                               "total_time_CG", "GRAM_printed"}]
    IN  IF s.kernel.likelihood_split # 1
        THEN [self |-> s1, raised |-> "AssertionError"]
        ELSE IF s1.batch = None
        THEN IF s.GPU
             THEN [self |-> s1, raised |-> "AssertionError"]
             ELSE [self |-> done([s1 EXCEPT
                       !.K_full = kernel_call(s.kernel, method_K, X, X),
                       !.dK_dps_full = [i \in Range0(nps) |->
                                           kernel_call(s.kernel, method_dK_dps(i), X, X)],
                       !.attrs = @ \cup {"K_full", "dK_dps_full"}]),
                   raised |-> "none"]
        ELSE IF s1.batch = 0
        THEN [self |-> s1, raised |-> "ValueError"]
        ELSE LET division == np_split_arange(s1.N, s1.batch)
             IN  [self |-> done([s1 EXCEPT
                       !.division = division,
                       !.division_out = [b \in DOMAIN division |->
                                            division_out_of(division[b], s1.N, nout)],
                       !.n_division = len(division),
                       !.attrs = @ \cup {"division", "division_out", "n_division"}]),
                   raised |-> "none"]

(***************************************************************************)
(* The blocked product of the symmetric kernel matrix and vec.             *)
(***************************************************************************)
\* A variant that evaluates the block of every pair.
computes_every(i, j) == TRUE
\* Line 165 / 199: the block pair (i, j) is computed at all.
computes(i, j) == i <= j
\* A variant that mirrors the diagonal blocks as well.
mirrors_diagonal(i, j) == i <= j
\* Line 169 / 206: the block is used a second time, transposed.
mirrors(i, j) == i < j
\* K_block = method(X[x], X[y]), with X the replica of the given device.
K_block_of(s, method, device, i, j) ==
    kernel_call(s.kernel, method, take(X_of(s, device), s.division[i]),
                take(X_of(s, device), s.division[j]))
\* The two accumulations of one block pair into the buffer result.
accumulate(s, K_block, vec, i, j, result) ==
    LET x_out == s.division_out[i]
        y_out == s.division_out[j]
        r1 == add_at(result, x_out, dot(K_block, take(vec, y_out)))
    IN  IF mirrors(i, j)
        THEN add_at(r1, y_out,
                    dot(transpose(K_block, len(x_out), len(y_out)), take(vec, x_out)))
        ELSE r1
\* The body of the double loop of _matrix_batch_CPU for blocks i, j.
CPU_body(s, method, vec, i, j, result) ==
    IF computes(i, j)
    THEN accumulate(s, K_block_of(s, method, 0, i, j), vec, i, j, result)
    ELSE result
RECURSIVE CPU_loop(_, _, _, _, _)
\* The double loop from its t-th pass on; pass t handles (t // n, t % n).  The
\* result of a pass is computed before the next pass begins.
CPU_loop(s, method, vec, t, result) ==
    IF t = s.n_division * s.n_division \/ result # result THEN result
    ELSE CPU_loop(s, method, vec, t + 1,
                  CPU_body(s, method, vec, t \div s.n_division, t % s.n_division, result))
_matrix_batch_CPU(s, method, vec) ==
    CPU_loop(s, method, vec, 0, zeros(len(vec), ncols(vec)))

\* A variant that runs every block pair on device 0.
device_zero(s, k) == 0
\* Line 202: the device of the k-th computed block pair.
device_of(s, k) == k % s.nGPU
\* A variant in which every device adds to the buffer of device 0.
buffer_zero(device_index) == 0
\* Lines 203-206: the replica of the points, the copy of vec and the buffer that
\* the block pair run on device_index works with.
X_index(device_index) == device_index
vecs_index(device_index) == device_index
batches_index(device_index) == device_index
\* The body of the double loop of _matrix_batch_GPU; g = [batches, vecs, k].
GPU_body(s, method, i, j, g) ==
    IF computes(i, j)
    THEN LET device_index == device_of(s, g.k)
         IN  [g EXCEPT !.batches[batches_index(device_index)] =
                           accumulate(s, K_block_of(s, method, X_index(device_index), i, j),
                                      g.vecs[vecs_index(device_index)], i, j, @),
                       !.k = @ + 1]
    ELSE g
\* What one step of a blocked product did, for the record of the call: a
\* synchronization of the null stream, the block pair (i, j) evaluated as the
\* k-th on a device with the replica, copy and buffer it used and the number of
\* times K_block was added to the result, or the sum of the buffers.
synchronize_event ==
    [e |-> "synchronize", i |-> None, j |-> None, k |-> None, device |-> 0,
     X |-> None, vecs |-> None, batches |-> {}, uses |-> 0]
block_event(i, j, k, device_index) ==
    [e |-> "K_block", i |-> i, j |-> j, k |-> k, device |-> device_index,
     X |-> X_index(device_index), vecs |-> vecs_index(device_index),
     batches |-> {batches_index(device_index)},
     uses |-> IF mirrors(i, j) THEN 2 ELSE 1]
sum_event(s) ==
    [e |-> "sum", i |-> None, j |-> None, k |-> None, device |-> 0,
     X |-> None, vecs |-> None, batches |-> Range0(s.nGPU), uses |-> 0]
\* The events of pass (i, j) of the double loop, after the events so far.
CPU_events(s, i, j, events) ==
    IF computes(i, j) THEN Append(events, block_event(i, j, None, 0)) ELSE events
GPU_events(s, i, j, g, events) ==
    IF computes(i, j) THEN Append(events, block_event(i, j, g.k, device_of(s, g.k)))
    ELSE events
RECURSIVE GPU_loop(_, _, _, _)
GPU_loop(s, method, t, g) ==
    IF t = s.n_division * s.n_division \/ g # g THEN g
    ELSE GPU_loop(s, method, t + 1,
                  GPU_body(s, method, t \div s.n_division, t % s.n_division, g))
\* Lines 186-192: one zero buffer and one copy of vec per device, k = 0.
GPU_alloc(s, vec) ==
    [batches |-> [d \in Range0(s.nGPU) |-> zeros(len(vec), ncols(vec))],
     vecs |-> [d \in Range0(s.nGPU) |-> vec],
     k |-> 0]
RECURSIVE sum_batches(_, _)
\* cp.sum(cp.array(batches), axis=0) over the first n buffers
sum_batches(batches, n) ==
    IF n = 1 THEN batches[0] ELSE mat_add(sum_batches(batches, n - 1), batches[n - 1])
\* A variant that returns the buffer of device 0 without the sum.
GPU_reduce_first(s, g) == g.batches[0]
\* Lines 209-212: the reduction on device 0.
GPU_reduce(s, g) == sum_batches(g.batches, s.nGPU)
_matrix_batch_GPU(s, method, vec) ==
    GPU_reduce(s, GPU_loop(s, method, 0, GPU_alloc(s, vec)))

\* A variant that goes dense by itself when there is a single point.
mv_path_small_dense(s) ==
    IF s.batch = None \/ s.N = 1 THEN "dense" ELSE IF s.GPU THEN "GPU" ELSE "CPU"
\* mv_K(vec) and mv_dK_dps(i, vec): the session, the value returned, what was raised.
\* path: which of the three branches ran.
mv_path(s) == IF s.batch = None THEN "dense" ELSE IF s.GPU THEN "GPU" ELSE "CPU"
\* Lines 228-233 and 255-258: the product on the path the session selects.
product_on(s, method, vec) ==
    IF s.batch = None
    THEN IF method.f = "K" THEN dot(s.K_full, vec) ELSE dot(s.dK_dps_full[method.i], vec)
    ELSE IF s.GPU THEN _matrix_batch_GPU(s, method, vec)
    ELSE _matrix_batch_CPU(s, method, vec)
\* A variant of mv_K without line 226: the call is not counted.
mv_K_uncounted(s, vec) ==
    IF "iter" \notin s.attrs
    THEN [self |-> s, raised |-> "AttributeError", ret |-> <<>>]
    ELSE [self |-> s, raised |-> "none", ret |-> product_on(s, method_K, vec)]
mv_K(s, vec) ==
    IF "iter" \notin s.attrs
    THEN [self |-> s, raised |-> "AttributeError", ret |-> <<>>]
    ELSE [self |-> [s EXCEPT !.iter = @ + 1], raised |-> "none",
          ret |-> product_on(s, method_K, vec)]
\* Line 260 reads self.kernel.dk_dps, an attribute the kernel does not have.
mv_dK_dps_CPU_attr == "dk_dps"
mv_dK_dps(s, i, vec) ==
    IF "iter" \notin s.attrs
    THEN [self |-> s, raised |-> "AttributeError", ret |-> <<>>]
    ELSE LET s1 == [s EXCEPT !.iter = @ + 1]
         IN  IF s.batch = None
             THEN [self |-> s1, raised |-> "none", ret |-> dot(s.dK_dps_full[i], vec)]
             ELSE IF s.GPU
             THEN [self |-> s1, raised |-> "none",
                   ret |-> _matrix_batch_GPU(s1, method_dK_dps(i), vec)]
             ELSE IF mv_dK_dps_CPU_attr \in kernel_attrs
             THEN [self |-> s1, raised |-> "none",
                   ret |-> _matrix_batch_CPU(s1, method_dK_dps(i), vec)]
             ELSE [self |-> s1, raised |-> "AttributeError", ret |-> <<>>]
\* mv_Knoise(vec) = mv_K(vec) + vec * noise
plus_noise(c, vec, noise) ==
    IF c.raised # "none" THEN c
    ELSE [c EXCEPT !.ret = mat_add(c.ret, mat_scale(vec, noise))]
mv_Knoise(s, vec) == plus_noise(mv_K(s, vec), vec, s.noise)
RECURSIVE xp_concatenate(_, _)
\* xp.concatenate(vs, axis=1) of the first n matrices of the sequence vs
xp_concatenate(vs, n) ==
    IF n = 1 THEN vs[1] ELSE hstack(xp_concatenate(vs, n - 1), vs[n])
\* np.cumsum(lengths) with a leading 0: the column at which each matrix starts
cumsum(vs) == [t \in DOMAIN vs |-> ncols(xp_concatenate(vs, t)) - ncols(vs[t])]
\* xp.split(result, cumsum, axis=1), as a sequence
xp_split(result, vs) ==
    [t \in DOMAIN vs |-> cols(result, cumsum(vs)[t], cumsum(vs)[t] + ncols(vs[t]))]
\* Lines 290-298, c the one call of method on the concatenated matrices.
_matrix_multiple(c, vs) ==
    IF c.raised # "none" THEN c ELSE [c EXCEPT !.ret = xp_split(c.ret, vs)]
\* mv_Knoise_multiple(*vs)
mv_Knoise_multiple(s, vs) == _matrix_multiple(mv_Knoise(s, xp_concatenate(vs, Len(vs))), vs)

(***************************************************************************)
(* numpy's global random generator: np_random is its state.  seed sets it, *)
(* every number drawn advances it.                                         *)
(***************************************************************************)
np_random_seed(seed) == seed % P
\* The state after m draws, and the number a state yields.
rng_at(st, m) == (st + m) % P
rand_out(st) == (2 * st + 1) % P
\* np.random.normal(size=(n, b)) drawn from state st
np_random_normal(st, n, b) ==
    ndarray([q \in Range0(n) |-> [c \in Range0(b) |-> rand_out(rng_at(st, q * b + c))]])
\* np.random.permutation(n) drawn from state st
np_random_permutation(st, n) == [t \in Range0(n) |-> (t + st) % n]
\* np.sort of an array of distinct indices
np_sort(a) ==
    LET S == {a[t] : t \in DOMAIN a}
    IN  [t \in Range0(Cardinality(S)) |->
            CHOOSE v \in S : Cardinality({u \in S : u < v}) = t]

(***************************************************************************)
(* The Nystroem preconditioner.  The object keeps the rows of the landmark *)
(* points, the noise and its device count; M^(-1/2) rescales the landmark  *)
(* subspace by one factor and its complement by another.                   *)
(***************************************************************************)
Preconditioner_Nystroem(landmark_rows, noise, nGPU) ==
    [landmark_rows |-> landmark_rows, noise |-> noise, nGPU |-> nGPU]
invhalf_factor(pred, q) == IF q \in pred.landmark_rows THEN 2 ELSE 3
mv_invhalf(pred, v) ==
    ndarray([q \in DOMAIN v |-> [c \in DOMAIN v[q] |-> Mul(invhalf_factor(pred, q), v[q][c])]])
\* The inverse of mv_invhalf.
mv_half(pred, v) ==
    ndarray([q \in DOMAIN v |-> [c \in DOMAIN v[q] |-> Div(v[q][c], invhalf_factor(pred, q))]])

\* set_preconditioner(N_init, indices, nGPU=nGPU, random_seed=random_seed), debug=False.
\* indices = <<>> with given = FALSE stands for indices=None.
\* st is the state of the generator at the call.  A verbose session prints self.N
\* (line 372) before anything is assigned.
set_preconditioner(s, st, N_init, given, indices, nGPU, random_seed) ==
    LET s1 == [s EXCEPT !.main_GPU = (nGPU # 0), !.attrs = @ \cup {"main_GPU"}]
        st1 == np_random_seed(random_seed)
        init_indices == IF given THEN indices
                        ELSE [t \in Range0(min(N_init, s.N)) |-> np_random_permutation(st1, s.N)[t]]
        st2 == IF given THEN st1 ELSE rng_at(st1, s.N)
        sorted == np_sort(init_indices)
        rows == {sorted[t] + c * s.N : t \in DOMAIN sorted, c \in Range0(s.kernel.nout)}
    IN  IF s.verbose /\ "N" \notin s.attrs
        THEN [self |-> s, np_random |-> st, raised |-> "AttributeError"]
        ELSE IF "N" \notin s.attrs \/ "X_CPU" \notin s.attrs
        THEN [self |-> s1, np_random |-> st1, raised |-> "AttributeError"]
        ELSE [self |-> [s1 EXCEPT !.pred_nystroem = Preconditioner_Nystroem(rows, s.noise, nGPU),
                                  !.attrs = @ \cup {"pred_nystroem"}],
              np_random |-> st2, raised |-> "none"]

\* mv_preconditioned_Knoise(v): M^(-1/2) (K + noise) M^(-1/2) v
rescaled(pred, c) ==
    IF c.raised # "none" THEN c ELSE [c EXCEPT !.ret = mv_invhalf(pred, c.ret)]
mv_preconditioned_Knoise(s, v) ==
    IF "pred_nystroem" \notin s.attrs
    THEN [self |-> s, raised |-> "AttributeError", ret |-> <<>>]
    ELSE rescaled(s.pred_nystroem, mv_Knoise(s, mv_invhalf(s.pred_nystroem, v)))

(***************************************************************************)
(* The block conjugate gradient solver.  Its k-th iterate agrees with the  *)
(* solution of the preconditioned system on the first k rows; after every  *)
(* iteration the operator is applied once and the residual tested.         *)
(***************************************************************************)
RECURSIVE gauss_jordan(_, _, _)
\* Gauss-Jordan elimination of the n x m matrix M from column c on.
gauss_jordan(M, n, c) ==
    IF c = n THEN M
    ELSE LET piv == CHOOSE q \in c..(n - 1) :
                        M[q][c] # 0 /\ \A q2 \in c..(q - 1) : M[q2][c] = 0
             sw == [q \in DOMAIN M |-> IF q = c THEN M[piv] ELSE IF q = piv THEN M[c] ELSE M[q]]
             rowc == [j \in DOMAIN sw[c] |-> Div(sw[c][j], sw[c][c])]
         IN  gauss_jordan(ndarray([q \in DOMAIN M |->
                              IF q = c THEN rowc
                              ELSE [j \in DOMAIN sw[q] |-> Sub(sw[q][j], Mul(sw[q][c], rowc[j]))]]),
                          n, c + 1)
RECURSIVE nonsingular_from(_, _, _)
nonsingular_from(M, n, c) ==
    IF c = n THEN TRUE
    ELSE IF \A q \in c..(n - 1) : M[q][c] = 0 THEN FALSE
    ELSE LET piv == CHOOSE q \in c..(n - 1) :
                        M[q][c] # 0 /\ \A q2 \in c..(q - 1) : M[q2][c] = 0
             sw == [q \in DOMAIN M |-> IF q = c THEN M[piv] ELSE IF q = piv THEN M[c] ELSE M[q]]
             rowc == [j \in DOMAIN sw[c] |-> Div(sw[c][j], sw[c][c])]
         IN  nonsingular_from(ndarray([q \in DOMAIN M |->
                                  IF q = c THEN rowc
                                  ELSE [j \in DOMAIN sw[q] |-> Sub(sw[q][j], Mul(sw[q][c], rowc[j]))]]),
                              n, c + 1)
nonsingular(A) == nonsingular_from(A, len(A), 0)
\* The solution X of A X = B for a nonsingular A.
linear_solve(A, B) == cols(gauss_jordan(hstack(A, B), len(A), 0), len(A), len(A) + ncols(B))
eye_scaled(n, x) == [q \in Range0(n) |-> [c \in Range0(n) |-> IF q = c THEN x ELSE 0]]
\* The matrix K + noise * I of the points X.
Knoise_matrix(kernel, X, noise) ==
    mat_add(kernel_call(kernel, method_K, X, X), eye_scaled(kernel.nout * len(X), noise))
\* x with the rows from k on set to zero
truncate(x, k) == ndarray([q \in DOMAIN x |-> [c \in DOMAIN x[q] |-> IF q < k THEN x[q][c] ELSE 0]])
RECURSIVE bcg_iterate(_, _, _, _, _)
\* The end of iteration k: c is the operator applied to the iterate x.
bcg_test(B, Xstar, max_iter, k, x, c) ==
    IF c.raised # "none"
    THEN [self |-> c.self, raised |-> c.raised, solution |-> x, iterations |-> k,
          bcg_converged |-> FALSE]
    ELSE IF c.ret = B
    THEN [self |-> c.self, raised |-> "none", solution |-> x, iterations |-> k,
          bcg_converged |-> TRUE]
    ELSE IF (max_iter # None /\ k >= max_iter) \/ k > len(B)
    THEN [self |-> c.self, raised |-> "none", solution |-> x, iterations |-> k,
          bcg_converged |-> FALSE]
    ELSE bcg_iterate(c.self, B, Xstar, max_iter, k + 1)
\* Iteration k >= 1 of the solver and those after it.
bcg_iterate(s, B, Xstar, max_iter, k) ==
    bcg_test(B, Xstar, max_iter, k, truncate(Xstar, k),
             mv_preconditioned_Knoise(s, truncate(Xstar, k)))
\* Krylov(mv_preconditioned_Knoise, Y_transform, ...).run()
Krylov_run(s, Y_transform, max_iter) ==
    LET Xstar == mv_half(s.pred_nystroem,
                         linear_solve(Knoise_matrix(s.kernel, s.X_CPU, s.noise),
                                      mv_half(s.pred_nystroem, Y_transform)))
    IN  CASE s = s /\ Y_transform = Y_transform /\ Xstar = Xstar ->
                 bcg_iterate(s, Y_transform, Xstar, max_iter, 1)

(***************************************************************************)
(* solve_iter.  a is the record of its arguments; its defaults are those   *)
(* of line 500.                                                            *)
(***************************************************************************)
area_Y == [lo |-> 0, hi |-> 1]
area_I(block_size) == [lo |-> 1, hi |-> block_size + 1]
\* A variant whose columns start one column early.
area_dL_dps_early(block_size, i) ==
    [lo |-> block_size * (1 + i), hi |-> block_size * (2 + i)]
area_dL_dps(block_size, i) ==
    [lo |-> block_size * (1 + i) + 1, hi |-> block_size * (2 + i) + 1]
in_area(c, area) == area.lo <= c /\ c < area.hi
\* m[:, area]
slice(m, area) == cols(m, area.lo, area.hi)
block_Y_width(block_size, compute_gradient) ==
    IF compute_gradient THEN block_size * (1 + nps) + 1 ELSE block_size + 1
\* The hyperparameters whose columns include column c.
written_dps(block_size, c) == {i \in Range0(nps) : in_area(c, area_dL_dps(block_size, i))}
\* Lines 535-546: the zero matrix with Y, the probes and dK_dps[i].probes written
\* in, in this order: a column keeps what was written to it last.
block_Y_of(Y, random_vectors, dps, block_size, compute_gradient) ==
    ndarray([q \in DOMAIN Y |-> [c \in Range0(block_Y_width(block_size, compute_gradient)) |->
        IF compute_gradient /\ written_dps(block_size, c) # {}
        THEN LET i == CHOOSE i2 \in written_dps(block_size, c) :
                          \A i3 \in written_dps(block_size, c) : i3 <= i2
             IN  dps[i][q][c - area_dL_dps(block_size, i).lo]
        ELSE IF in_area(c, area_I(block_size))
        THEN random_vectors[q][c - area_I(block_size).lo]
        ELSE IF in_area(c, area_Y) THEN Y[q][c - area_Y.lo]
        ELSE 0]])
\* Lines 569-574 and 589-591: the columns read from the solution.
solution_columns(real_solution, block_size, compute_gradient) ==
    IF compute_gradient
    THEN [woodbury_vec_iter |-> slice(real_solution, area_Y),
          woodbury_vec_I |-> slice(real_solution, area_I(block_size)),
          woodbury_vec_dK_dps |->
              [i \in Range0(nps) |-> slice(real_solution, area_dL_dps(block_size, i))]]
    ELSE [woodbury_vec_iter |-> slice(real_solution, area_Y),
          woodbury_vec_I |-> <<>>, woodbury_vec_dK_dps |-> <<>>]
\* np.sum(a * b)
sum_product(a, b) ==
    sum_upto([q \in DOMAIN a |->
                 sum_upto([c \in DOMAIN a[q] |-> Mul(a[q][c], b[q][c])], len(a[q]))], len(a))
RECURSIVE mv_dK_dps_list(_, _, _)
\* The list h of the first n - 1 products with the n-th, c, appended.
list_append(h, c, n) ==
    IF c.raised # "none"
    THEN [self |-> c.self, raised |-> c.raised, ret |-> <<>>]
    ELSE [self |-> c.self, raised |-> "none",
          ret |-> [i \in Range0(n) |-> IF i < n - 1 THEN h.ret[i] ELSE c.ret]]
list_next(h, vec, n) ==
    IF h.raised # "none" THEN h ELSE list_append(h, mv_dK_dps(h.self, n - 1, vec), n)
\* [self.mv_dK_dps_numpy(i, vec) for i in range(n)]
mv_dK_dps_list(s, vec, n) ==
    IF n = 0 THEN [self |-> s, raised |-> "none", ret |-> <<>>]
    ELSE list_next(mv_dK_dps_list(s, vec, n - 1), vec, n)
\* What the Krylov object of line 554 is built with, and what its run left in it.
Krylov(a, run) ==
    [thres |-> a.thres, lanczos_n_iter |-> a.lanczos_n_iter, debug |-> a.debug,
     max_iter |-> a.max_iter, iterations |-> run.iterations,
     bcg_converged |-> run.bcg_converged]
\* Lines 568-580: the gradients from the solution columns.
gradients_of(a, rv, real_solution, dKw) ==
    LET woodbury == slice(real_solution, area_Y)
        bs == Scalar(a.block_size)
        tr_I == Div(sum_product(slice(real_solution, area_I(a.block_size)), rv), bs)
        tr_dK_dps(i) ==
            Div(sum_product(slice(real_solution, area_dL_dps(a.block_size, i)), rv), bs)
    IN  [i \in Range0(nps + 1) |->
            IF i < nps
            THEN Sub(Div(sum_product(woodbury, dKw[i]), 2), Div(tr_dK_dps(i), 2))
            ELSE Sub(Div(sum_product(woodbury, woodbury), 2), Div(tr_I, 2))]
no_products(s) == [self |-> s, raised |-> "none", ret |-> <<>>]
\* What a call that raised hands back: the session as the exception left it.
raises(s, st, exception) == [self |-> s, np_random |-> st, raised |-> exception, ret |-> <<>>]
\* Lines 596-600: self.w and the value returned.
solve_iter_return(s, st, woodbury_vec_iter) ==
    [self |-> [s EXCEPT !.w = woodbury_vec_iter, !.attrs = @ \cup {"w"}],
     np_random |-> st, raised |-> "none", ret |-> woodbury_vec_iter]
\* Lines 578-580: dKw is the list of line 577.
solve_iter_gradients(a, st, rv, real_solution, dKw) ==
    IF dKw.raised # "none" THEN raises(dKw.self, st, dKw.raised)
    ELSE solve_iter_return(
             [dKw.self EXCEPT !.gradients = gradients_of(a, rv, real_solution, dKw.ret),
                              !.attrs = @ \cup {"tr_I", "tr_dK_dps", "gradients"}],
             st, slice(real_solution, area_Y))
\* Lines 569-600: real_solution is the array of line 569 / 589.
solve_iter_solution(s, st, a, rv, real_solution) ==
    IF a.compute_gradient
    THEN solve_iter_gradients(a, st, rv, real_solution,
                              mv_dK_dps_list(s, slice(real_solution, area_Y), nps))
    ELSE solve_iter_return(s, st, slice(real_solution, area_Y))
\* A variant in which the solve leaves a preconditioner without landmarks.
after_run_resets(a, run) ==
    [run.self EXCEPT !.krylov = Krylov(a, run),
                     !.GRAM_printed = @ \/ (run.self.verbose /\ run.self.GPU),
                     !.converged = run.bcg_converged,
                     !.pred_nystroem = Preconditioner_Nystroem({}, run.self.noise, 0),
                     !.attrs = @ \cup {"Y_transform", "krylov", "solution", "converged"}]
\* The session after lines 554-560: run is what krylov.run() did.  The callback
\* (lines 483-497) has run once per iteration.
after_run(a, run) ==
    [run.self EXCEPT !.krylov = Krylov(a, run),
                     !.GRAM_printed = @ \/ (run.self.verbose /\ run.self.GPU),
                     !.converged = run.bcg_converged,
                     !.attrs = @ \cup {"Y_transform", "krylov", "solution", "converged"}]
\* Lines 557-600.  cp is a name only where cupy could be imported.
solve_iter_run(st, gpu_available, a, rv, run) ==
    IF run.raised # "none"
    THEN raises([run.self EXCEPT !.krylov = Krylov(a, run),
                                 !.attrs = @ \cup {"Y_transform", "krylov"}],
                st, run.raised)
    ELSE IF ~gpu_available THEN raises(after_run(a, run), st, "NameError")
    ELSE solve_iter_solution(after_run(a, run), st, a, rv,
                             mv_invhalf(run.self.pred_nystroem, run.solution))
\* Lines 535-600: dps is the list of the products of line 540.
solve_iter_block(st, gpu_available, a, rv, dps) ==
    IF dps.raised # "none" THEN raises(dps.self, st, dps.raised)
    ELSE IF "pred_nystroem" \notin dps.self.attrs
    THEN raises([dps.self EXCEPT !.attrs = @ \cup {"block_Y"}], st, "AttributeError")
    ELSE solve_iter_run(st, gpu_available, a, rv,
             Krylov_run([dps.self EXCEPT !.attrs = @ \cup {"block_Y"}],
                        mv_invhalf(dps.self.pred_nystroem,
                                   block_Y_of(a.Y, rv, dps.ret, a.block_size,
                                              a.compute_gradient)),
                        a.max_iter))
\* Lines 521-600: s has the probes rv, and the generator is in state st.
solve_iter_probes(s, st, gpu_available, a, rv) ==
    solve_iter_block(st, gpu_available, a, rv,
                     IF a.compute_gradient THEN mv_dK_dps_list(s, rv, nps)
                     ELSE no_products(s))
\* A variant without line 521: the probes are drawn from the generator as it is.
solve_iter_body_unseeded(s0, st0, gpu_available, a) ==
    IF "main_GPU" \notin s0.attrs
    THEN raises([s0 EXCEPT !.Y = a.Y, !.attrs = @ \cup {"Y"}], st0, "AttributeError")
    ELSE solve_iter_probes(
             [s0 EXCEPT !.Y = a.Y,
                        !.random_vectors = np_random_normal(st0, len(a.Y), a.block_size),
                        !.attrs = @ \cup {"Y", "random_vectors", "lanczos_vectors"}],
             rng_at(st0, len(a.Y) * a.block_size),
             gpu_available, a,
             np_random_normal(st0, len(a.Y), a.block_size))
\* Lines 511 and 514-600: solve_iter without x0.
solve_iter_body(s0, st0, gpu_available, a) ==
    IF "main_GPU" \notin s0.attrs
    THEN raises([s0 EXCEPT !.Y = a.Y, !.attrs = @ \cup {"Y"}], st0, "AttributeError")
    ELSE solve_iter_probes(
             [s0 EXCEPT !.Y = a.Y,
                        !.random_vectors = np_random_normal(np_random_seed(a.random_seed),
                                                            len(a.Y), a.block_size),
                        !.attrs = @ \cup {"Y", "random_vectors", "lanczos_vectors"}],
             rng_at(np_random_seed(a.random_seed), len(a.Y) * a.block_size),
             gpu_available, a,
             np_random_normal(np_random_seed(a.random_seed), len(a.Y), a.block_size))
\* Line 513: the arguments of the recursive call on the residual Y2.
forwarded(a, Y2) == [a EXCEPT !.Y = Y2, !.x0_given = FALSE, !.x0 = <<>>, !.max_iter = None]
\* A variant of line 513 that returns the solution of the residual system.
plus_x0_dropped(inner, x0) == inner
\* Line 513: the value of the recursive call, plus x0.
plus_x0(inner, x0) ==
    IF inner.raised # "none" THEN inner ELSE [inner EXCEPT !.ret = mat_add(inner.ret, x0)]
\* Line 513: c is self.mv_Knoise_numpy(x0).
solve_iter_warm(c, st, gpu_available, a) ==
    IF c.raised # "none" THEN raises(c.self, st, c.raised)
    ELSE plus_x0(solve_iter_body(c.self, st, gpu_available,
                                 forwarded(a, mat_sub(a.Y, c.ret))), a.x0)
solve_iter(s, st, gpu_available, a) ==
    IF ~a.x0_given THEN solve_iter_body(s, st, gpu_available, a)
    ELSE solve_iter_warm(mv_Knoise([s EXCEPT !.Y = a.Y, !.attrs = @ \cup {"Y"}], a.x0),
                         st, gpu_available, a)

\* A variant of predict that adds nothing for the training points.
predict_untrained(s, X2, training) ==
    IF "X" \notin s.attrs \/ "w" \notin s.attrs
    THEN [raised |-> "AttributeError", ret |-> <<>>]
    ELSE [raised |-> "none",
          ret |-> dot(kernel_call(s.kernel, method_K, X2, X_of(s, 0)), s.w)]
\* result += self.w * self.noise: w has the rows of result or one row, that is
\* added to every row of result; any other shape cannot be broadcast.
iadd_noise(result, w, noise) ==
    IF len(w) = len(result)
    THEN [raised |-> "none", ret |-> mat_add(result, mat_scale(w, noise))]
    ELSE IF len(w) = 1
    THEN [raised |-> "none",
          ret |-> mat_add(result, [q \in DOMAIN result |-> mat_scale(w, noise)[0]])]
    ELSE [raised |-> "ValueError", ret |-> <<>>]
\* predict(X2, training)
predict(s, X2, training) ==
    IF "X" \notin s.attrs \/ "w" \notin s.attrs
    THEN [raised |-> "AttributeError", ret |-> <<>>]
    ELSE LET result == dot(kernel_call(s.kernel, method_K, X2, X_of(s, 0)), s.w)
         IN  IF training THEN iadd_noise(result, s.w, s.noise)
             ELSE [raised |-> "none", ret |-> result]

(***************************************************************************)
(* save, from_dict and load.  np.savez stores every value as an array, a    *)
(* number or a dict as an array without dimensions whose one item is read   *)
(* back with [()].                                                          *)
(***************************************************************************)
\* initialize's default batch, the one from_dict initializes with.
default_batch == 4096
np_asarray_0d(v) == [item |-> v]
item(a) == a.item
\* Stationary.to_dict: the class of the kernel is kept under its name.
to_dict(kernel) ==
    [lengthscale |-> kernel.lengthscale, variance |-> kernel.variance,
     name |-> [nout |-> kernel.nout, likelihood_split |-> kernel.likelihood_split]]
\* kern.get_kern_obj: a kernel of the named class with the parameters of the dict.
get_kern_obj(kernel_dict) ==
    [variance |-> kernel_dict.variance, lengthscale |-> kernel_dict.lengthscale,
     nout |-> kernel_dict.name.nout, likelihood_split |-> kernel_dict.name.likelihood_split]
\* np.savez(path, **data) and dict(np.load(path, allow_pickle=True))
np_savez(data) ==
    [kernel |-> np_asarray_0d(data.kernel), X |-> data.X, Y |-> data.Y, w |-> data.w,
     noise |-> np_asarray_0d(data.noise)]
np_load(archive) == archive
\* save(path): what is raised and the archive written.
save(s) ==
    IF ~({"X", "Y", "w", "noise"} \subseteq s.attrs)
    THEN [raised |-> "AttributeError", ret |-> <<>>]
    ELSE [raised |-> "none",
          ret |-> np_savez([kernel |-> to_dict(s.kernel), X |-> X_of(s, 0), Y |-> s.Y,
                            w |-> s.w, noise |-> s.noise])]
\* A variant that takes the weight vector from the stored targets.
from_dict_targets(data, GPU) ==
    LET c == initialize(BBMM(get_kern_obj(item(data.kernel)), IF GPU THEN 1 ELSE 0, TRUE),
                        data.X, item(data.noise), default_batch)
    IN  IF c.raised # "none" THEN [self |-> c.self, raised |-> c.raised]
        ELSE [self |-> [c.self EXCEPT !.w = data.Y, !.attrs = @ \cup {"w"}],
              raised |-> "none"]
\* from_dict(data, GPU): the session built, and what was raised.
from_dict(data, GPU) ==
    LET c == initialize(BBMM(get_kern_obj(item(data.kernel)), IF GPU THEN 1 ELSE 0, TRUE),
                        data.X, item(data.noise), default_batch)
    IN  IF c.raised # "none" THEN [self |-> c.self, raised |-> c.raised]
        ELSE [self |-> [c.self EXCEPT !.w = data.w, !.attrs = @ \cup {"w"}],
              raised |-> "none"]
\* load(path, GPU)
load(archive, GPU) == from_dict(np_load(archive), GPU)

(***************************************************************************)
(* The inputs the model draws.                                             *)
(***************************************************************************)
MaxCalls == 2
Kernels ==
    [variance : {1, 2}, lengthscale : {1}, nout : 1..MaxNout, likelihood_split : {1}]
        \cup {[variance |-> 1, lengthscale |-> 1, nout |-> 1, likelihood_split |-> 2]}
\* Point arrays of n points: an increasing one and one with a repeated point.
Points(n) == {[t \in Range0(n) |-> t], [t \in Range0(n) |-> (2 * t + 1) % 3]}
Batches == 1..MaxBatch
Noises == {1}
\* The i-th unit column of length n, as an n x 1 matrix.
unit(n, i) == [q \in Range0(n) |-> [c \in Range0(1) |-> IF q = i THEN 1 ELSE 0]]
\* An n x 2 matrix with distinct columns.
two_columns(n) == [q \in Range0(n) |-> [c \in Range0(2) |-> (q + 2 * c + 1) % P]]
Vectors(n) == {unit(n, n - 1), two_columns(n)}
Envs == [gpu_available : BOOLEAN]
\* The record of a call made on the session s: what was called, what it raised
\* and returned, the counter of s when it was made, and whether the call repeats
\* the one before it.
call_of(s, op, args, raised, ret) ==
    [op |-> op, args |-> args, raised |-> raised, ret |-> ret, iter0 |-> s.iter,
     again |-> FALSE]
no_call == [op |-> "none", args |-> <<>>, raised |-> "none", ret |-> <<>>, iter0 |-> 0,
            again |-> FALSE]
\* twin is a second session with its own generator; no_twin where there is none.
no_twin == [self |-> <<>>, np_random |-> 0]
mv_idle == [pc |-> "idle", method |-> method_K, vec |-> <<>>, t |-> 0,
            g |-> [batches |-> <<>>, vecs |-> <<>>, k |-> 0], result |-> <<>>, ret |-> <<>>,
            events |-> <<>>]

(***************************************************************************)
(* SpecMV: one initialized session; mv_K and mv_dK_dps run one pass of the *)
(* block loop at a time.                                                   *)
(***************************************************************************)
InitMV ==
    /\ env \in Envs
    /\ \E kernel \in Kernels, nGPU \in 0..MaxGPU :
          /\ nGPU > 0 => env.gpu_available
          /\ self = BBMM(kernel, nGPU, FALSE)
    /\ np_random = 0
    /\ last = no_call
    /\ mv = mv_idle
    /\ twin = no_twin

\* bbmm.initialize(X, noise, batch), once on the session
MvInitialize ==
    /\ "N" \notin self.attrs
    /\ \E n \in 1..MaxN, noise \in Noises, batch \in Batches \cup {None} :
       \E X \in Points(n) :
          LET c == initialize(self, X, noise, batch)
          IN  /\ self' = c.self
              /\ last' = call_of(self, "initialize",
                                  [X |-> X, noise |-> noise, batch |-> batch], c.raised, <<>>)
    /\ UNCHANGED <<twin, env, np_random, mv>>

\* A call of mv_K or mv_dK_dps up to the start of the block loop.
MvCall ==
    /\ "iter" \in self.attrs
    /\ mv.pc \in {"idle", "done"}
    /\ self.iter < MaxCalls
    /\ \E method \in {method_K} \cup {method_dK_dps(i) : i \in Range0(nps)},
          vec \in Vectors(self.N_out) :
          /\ self' = [self EXCEPT !.iter = @ + 1]
          /\ IF mv_path(self) = "dense"
             THEN mv' = [mv_idle EXCEPT !.pc = "done", !.method = method, !.vec = vec,
                            !.ret = IF method.f = "K" THEN dot(self.K_full, vec)
                                    ELSE dot(self.dK_dps_full[method.i], vec)]
             ELSE IF mv_path(self) = "GPU"
             THEN mv' = [mv_idle EXCEPT !.pc = "GPU", !.method = method, !.vec = vec,
                            !.g = GPU_alloc(self, vec),
                            !.events = <<synchronize_event>>]
             ELSE IF method.f = "K" \/ mv_dK_dps_CPU_attr \in kernel_attrs
             THEN mv' = [mv_idle EXCEPT !.pc = "CPU", !.method = method, !.vec = vec,
                            !.result = zeros(len(vec), ncols(vec))]
             ELSE mv' = [mv_idle EXCEPT !.pc = "raised", !.method = method, !.vec = vec]
    /\ UNCHANGED <<twin, env, np_random, last>>

\* One pass of the double loop of _matrix_batch_CPU.
MvStepCPU ==
    /\ mv.pc = "CPU"
    /\ mv.t < self.n_division * self.n_division
    /\ mv' = [mv EXCEPT !.t = @ + 1,
                        !.result = CPU_body(self, mv.method, mv.vec, mv.t \div self.n_division,
                                            mv.t % self.n_division, @),
                        !.events = CPU_events(self, mv.t \div self.n_division,
                                              mv.t % self.n_division, @)]
    /\ UNCHANGED <<twin, env, self, np_random, last>>

\* return result
MvReturnCPU ==
    /\ mv.pc = "CPU"
    /\ mv.t = self.n_division * self.n_division
    /\ mv' = [mv EXCEPT !.pc = "done", !.ret = mv.result]
    /\ UNCHANGED <<twin, env, self, np_random, last>>

\* One pass of the double loop of _matrix_batch_GPU.
MvStepGPU ==
    /\ mv.pc = "GPU"
    /\ mv.t < self.n_division * self.n_division
    /\ mv' = [mv EXCEPT !.t = @ + 1,
                        !.g = GPU_body(self, mv.method, mv.t \div self.n_division,
                                       mv.t % self.n_division, @),
                        !.events = GPU_events(self, mv.t \div self.n_division,
                                              mv.t % self.n_division, mv.g, @)]
    /\ UNCHANGED <<twin, env, self, np_random, last>>

\* The reduction on device 0 and the return.
MvReduceGPU ==
    /\ mv.pc = "GPU"
    /\ mv.t = self.n_division * self.n_division
    /\ mv' = [mv EXCEPT !.pc = "done", !.result = GPU_reduce(self, mv.g),
                        !.ret = GPU_reduce(self, mv.g),
                        !.events = Append(Append(@, sum_event(self)), synchronize_event)]
    /\ UNCHANGED <<twin, env, self, np_random, last>>

\* The AttributeError of line 260 reaches the caller.
MvRaise ==
    /\ mv.pc = "raised"
    /\ mv' = [mv EXCEPT !.pc = "idle"]
    /\ UNCHANGED <<twin, env, self, np_random, last>>

NextMV == MvInitialize \/ MvCall \/ MvStepCPU \/ MvReturnCPU \/ MvStepGPU \/ MvReduceGPU \/ MvRaise

SpecMV == InitMV /\ [][NextMV]_vars

\* The dense reference: the full kernel matrix of the session's points times vec.
dense_product(s, method, vec) == dot(kernel_call(s.kernel, method, s.X_CPU, s.X_CPU), vec)

\* C1: when the blocked CPU product returns, its result is the dense product K.V
\* of the full symmetric kernel matrix, for the kernel and for its derivatives.
C1_BlockedCPUIsDense ==
    (mv.pc = "done" /\ mv_path(self) = "CPU") =>
        mv.ret = dense_product(self, mv.method, mv.vec)
C1_Witness ==
    /\ mv.pc = "done" /\ mv_path(self) = "CPU" /\ self.n_division >= 2
    /\ self.kernel.nout = 2
    /\ \E q \in DOMAIN mv.ret : mv.ret[q][0] # 0

\* C2: a product that has returned equals the product of the same points on
\* every other path: every block size, every number of devices, and no blocks.
C2_SamePathsSameProduct ==
    mv.pc = "done" =>
        \A g \in 0..MaxGPU, b \in Batches \cup {None} :
            LET c == initialize(BBMM(self.kernel, g, FALSE), self.X_CPU, self.noise, b)
            IN  c.raised = "none" => product_on(c.self, mv.method, mv.vec) = mv.ret
C2_Witness ==
    /\ mv.pc = "done" /\ mv_path(self) = "GPU" /\ self.nGPU >= 2 /\ self.n_division >= 2
    /\ \E q \in DOMAIN mv.ret : mv.ret[q][0] # 0

\* division is a list of non-empty runs of consecutive indices, the first from 0,
\* each from where the one before it ends, the last up to N - 1, of at most
\* size indices each.
is_partition(division, N, size) ==
    /\ len(division) >= 1
    /\ \A b \in DOMAIN division :
          /\ len(division[b]) >= 1
          /\ len(division[b]) <= size
          /\ \A t \in 1..(len(division[b]) - 1) : division[b][t] = division[b][t - 1] + 1
          /\ division[b][0] =
                 IF b = 0 THEN 0 ELSE division[b - 1][len(division[b - 1]) - 1] + 1
    /\ division[len(division) - 1][len(division[len(division) - 1]) - 1] = N - 1
\* initialize was called with a batch on a kernel whose likelihood is not split.
initialized_with_batch ==
    /\ last.op = "initialize"
    /\ last.args.batch # None
    /\ last.args.batch >= 1
    /\ self.kernel.likelihood_split = 1
partitioned ==
    /\ last.raised = "none"
    /\ is_partition(self.division, self.N,
                    min(last.args.batch \div self.kernel.nout, self.N))
\* C3 as stated: for every batch >= 1 initialize succeeds and division is a
\* partition of [0, N) into runs of at most min(batch // nout, N) indices.
C3_EveryBatchPartitions == initialized_with_batch => partitioned
\* C3: for every batch >= nout initialize succeeds and division is a partition
\* of [0, N) into runs of at most min(batch // nout, N) indices.
C3_BatchOfNoutPartitions ==
    (initialized_with_batch /\ last.args.batch >= self.kernel.nout) => partitioned
C3_Witness ==
    /\ initialized_with_batch /\ last.args.batch >= self.kernel.nout
    /\ self.N = 3 /\ self.n_division = 2
    /\ len(self.division[0]) = 2 /\ len(self.division[1]) = 1

\* C4 as stated: a call of mv_dK_dps returns, on every path, and what it returns
\* is the dense product of the derivative of the kernel matrix and vec.
C4_GradientProductIsDense ==
    (mv.method.f = "dK_dps" /\ mv.pc \in {"done", "raised"}) =>
        (mv.pc = "done" /\ mv.ret = dense_product(self, mv.method, mv.vec))

\* The number of block pairs (i, j) with i <= j of a partition into n blocks.
pairs(n) == (n * (n + 1)) \div 2
\* Every block pair was evaluated with the replica of the points, the copy of vec
\* and the buffer of the device it ran on.
own_replicas(events) ==
    \A q \in DOMAIN events :
        events[q].e = "K_block" =>
            /\ events[q].X = events[q].device
            /\ events[q].vecs = events[q].device
            /\ events[q].batches = {events[q].device}
\* The record of a finished multi-device product: a synchronization, then all
\* the block pairs, then the sum of the nGPU buffers, then a synchronization.
reduced_after_all(s, m) ==
    /\ Len(m.events) = pairs(s.n_division) + 3
    /\ \A q \in 2..(Len(m.events) - 2) : m.events[q].e = "K_block"
    /\ m.events[Len(m.events) - 1].e = "sum"
    /\ m.events[Len(m.events) - 1].batches = Range0(s.nGPU)
    /\ m.events[Len(m.events)] = synchronize_event
    /\ m.ret = sum_batches(m.g.batches, s.nGPU)
\* C11: in the multi-device product every block pair reads the replica of the
\* points and the copy of vec of its own device and changes the buffer of that
\* device only; the sum of all nGPU buffers comes after every block pair, with
\* a synchronization before the first block pair and one after the sum.
C11_DevicesOwnBuffers ==
    [][(mv'.pc \in {"GPU", "done"} /\ self.GPU /\ mv' # mv) =>
          /\ own_replicas(mv'.events)
          /\ Head(mv'.events) = synchronize_event
          /\ (mv.pc = "GPU" /\ mv'.pc = "GPU") =>
                 /\ mv'.g.vecs = mv.g.vecs
                 /\ \A d \in Range0(self.nGPU) :
                        d # device_of(self, mv.g.k) => mv'.g.batches[d] = mv.g.batches[d]
          /\ mv'.pc = "done" => reduced_after_all(self, mv')]_vars
C11_Witness ==
    /\ mv.pc = "done" /\ self.GPU /\ self.nGPU = 2 /\ self.n_division = 2
    /\ \E q \in DOMAIN mv.events : mv.events[q].e = "K_block" /\ mv.events[q].device = 1
    /\ mv.g.batches[1] # zeros(len(mv.vec), ncols(mv.vec))
    /\ mv.g.batches[0] # mv.ret

\* The place of the block pair (i, j), i <= j, among the pairs with i <= j of a
\* partition into n blocks, counted from 0 in row-major order.
rank(n, i, j) == i * n - (i * (i - 1)) \div 2 + (j - i)
\* C12: in the multi-device product the k-th block pair (i, j) with i <= j in
\* row-major order runs on device k mod nGPU, no pair runs twice, and when the
\* product returns every pair has run; the device of a pair is a function of
\* the partition and the device count alone.
C12_RoundRobinDevices ==
    (self.GPU /\ mv.pc \in {"GPU", "done"}) =>
        /\ \A q \in DOMAIN mv.events :
               mv.events[q].e = "K_block" =>
                   /\ mv.events[q].i <= mv.events[q].j
                   /\ mv.events[q].k = rank(self.n_division, mv.events[q].i, mv.events[q].j)
                   /\ mv.events[q].device = mv.events[q].k % self.nGPU
        /\ \A q1, q2 \in DOMAIN mv.events :
               (/\ mv.events[q1].e = "K_block" /\ mv.events[q2].e = "K_block"
                /\ mv.events[q1].i = mv.events[q2].i /\ mv.events[q1].j = mv.events[q2].j)
                   => q1 = q2
        /\ mv.pc = "done" =>
               \A i \in Range0(self.n_division), j \in Range0(self.n_division) :
                   i <= j => \E q \in DOMAIN mv.events :
                                 /\ mv.events[q].e = "K_block"
                                 /\ mv.events[q].i = i /\ mv.events[q].j = j
C12_Witness ==
    /\ mv.pc = "done" /\ self.GPU /\ self.nGPU = 2 /\ self.n_division = 3
    /\ \E q \in DOMAIN mv.events :
           /\ mv.events[q].e = "K_block" /\ mv.events[q].i = 1 /\ mv.events[q].j = 1
           /\ mv.events[q].k = 3 /\ mv.events[q].device = 1

\* The set of the entries of the index array a.
entries(a) == {a[t] : t \in DOMAIN a}
\* C13: after an initialize with a batch, division_out[b] holds, once each, the
\* indices division[b] + c * N of the channels c in [0, nout); the index sets of
\* distinct blocks are disjoint and together are [0, N * nout).
C13_OutputIndexSets ==
    ("division_out" \in self.attrs) =>
        /\ len(self.division_out) = len(self.division)
        /\ \A b \in DOMAIN self.division :
               /\ entries(self.division_out[b]) =
                      {self.division[b][t] + c * self.N :
                          t \in DOMAIN self.division[b], c \in Range0(self.kernel.nout)}
               /\ len(self.division_out[b]) = self.kernel.nout * len(self.division[b])
               /\ Cardinality(entries(self.division_out[b])) = len(self.division_out[b])
        /\ \A b1, b2 \in DOMAIN self.division_out :
               b1 # b2 => entries(self.division_out[b1]) \cap entries(self.division_out[b2]) = {}
        /\ UNION {entries(self.division_out[b]) : b \in DOMAIN self.division_out}
               = Range0(self.N * self.kernel.nout)
C13_Witness ==
    /\ "division_out" \in self.attrs /\ self.kernel.nout = 2
    /\ self.N = 3 /\ self.n_division = 3
    /\ entries(self.division_out[1]) = {1, 4}

\* The call of mv_K or mv_dK_dps in mv made one multiply with a full matrix and
\* evaluated no block.
dense_taken == mv.pc = "done" /\ mv.events = <<>> /\ mv.t = 0
\* C18: a product takes the dense path exactly when initialize was called with
\* batch=None, whatever N is; initialize with batch=None on a GPU session
\* raises AssertionError.
C18_DenseOnlyOnRequest ==
    /\ mv.pc # "idle" => (dense_taken <=> last.args.batch = None)
    /\ (mv.pc # "idle" /\ dense_taken) =>
           /\ ~self.GPU
           /\ mv.ret = dot(IF mv.method.f = "K" THEN self.K_full
                           ELSE self.dK_dps_full[mv.method.i], mv.vec)
    /\ (last.op = "initialize" /\ last.args.batch = None /\ self.GPU) =>
           last.raised = "AssertionError"
C18_Witness ==
    /\ dense_taken /\ last.args.batch = None /\ self.N = 3 /\ self.kernel.nout = 2
    /\ mv.method.f = "dK_dps"
    /\ \E q \in DOMAIN mv.ret : mv.ret[q] # mv.vec[q]
C18_WitnessBlocked ==
    /\ mv.pc = "done" /\ ~dense_taken /\ self.N = 1 /\ last.args.batch = 3

\* The positions in the record of the call at which the block of (i, j) was
\* evaluated.
evaluations(i, j) ==
    {t \in DOMAIN mv.events :
        mv.events[t].e = "K_block" /\ mv.events[t].i = i /\ mv.events[t].j = j}
\* C20: in one blocked product the kernel block of a pair (i, j) is evaluated
\* once if i <= j and never if i > j, n(n+1)/2 evaluations for n blocks; a
\* diagonal block is added to the result once and an off-diagonal block twice.
C20_UpperTriangleOnce ==
    /\ \A t \in DOMAIN mv.events :
           mv.events[t].e = "K_block" =>
               /\ mv.events[t].i <= mv.events[t].j
               /\ Cardinality(evaluations(mv.events[t].i, mv.events[t].j)) = 1
               /\ mv.events[t].uses = IF mv.events[t].i = mv.events[t].j THEN 1 ELSE 2
    /\ (mv.pc = "done" /\ ~dense_taken) =>
           /\ \A i, j \in Range0(self.n_division) :
                  Cardinality(evaluations(i, j)) = IF i <= j THEN 1 ELSE 0
           /\ Cardinality({t \in DOMAIN mv.events : mv.events[t].e = "K_block"})
                  = pairs(self.n_division)
C20_Witness ==
    /\ mv.pc = "done" /\ self.n_division = 3 /\ ~self.GPU
    /\ Cardinality({t \in DOMAIN mv.events : mv.events[t].e = "K_block"}) = 6
    /\ Cardinality(evaluations(0, 2)) = 1 /\ Cardinality(evaluations(2, 0)) = 0
    /\ mv.events[CHOOSE t \in evaluations(0, 2) : TRUE].uses = 2
    /\ mv.events[CHOOSE t \in evaluations(1, 1) : TRUE].uses = 1
C20_WitnessGPU ==
    /\ mv.pc = "done" /\ self.n_division = 2 /\ self.GPU
    /\ Cardinality({t \in DOMAIN mv.events : mv.events[t].e = "K_block"}) = 3

(***************************************************************************)
(* Spec: one session from its construction on.  Every action is one call   *)
(* of a method of the session; last records the call and its outcome.      *)
(***************************************************************************)
MaxIter == 2
MaxProducts == 1
MaxSessionN == 2
SessionKernels ==
    [variance : {1}, lengthscale : {1}, nout : 1..MaxNout, likelihood_split : {1}]
        \cup {[variance |-> 1, lengthscale |-> 1, nout |-> 1, likelihood_split |-> 2]}
SessionPoints(n) == {[t \in Range0(n) |-> t]}
Targets(n) == {unit(n, n - 1)}
Seeds == {0, 1}
MaxIters == {None, 1}
\* The arguments of solve_iter: with and without x0, with and without gradients.
SolveArgsOf(Ys, seeds, max_iters) ==
    [Y : Ys, x0_given : {FALSE}, x0 : {<<>>}, block_size : {1}, thres : {1},
     compute_gradient : BOOLEAN, random_seed : seeds, compute_loglikelihood : {FALSE},
     lanczos_n_iter : {20}, debug : {FALSE}, max_iter : max_iters]
    \cup
    [Y : Ys, x0_given : {TRUE}, x0 : {unit(len(CHOOSE y \in Ys : TRUE), 0)}, block_size : {1},
     thres : {1}, compute_gradient : {FALSE}, random_seed : seeds,
     compute_loglikelihood : {FALSE}, lanczos_n_iter : {20}, debug : {FALSE},
     max_iter : max_iters]
SolveArgs(n) == SolveArgsOf(Targets(n), Seeds, MaxIters)
\* In Spec, where every method is called: one target, one seed, no max_iter.
LifecycleArgs(n) == SolveArgsOf({unit(n, n - 1)}, {0}, {None})
\* The rows a call works on: those of the session's points, or one row on a
\* session that has no points yet.
rows_of(s) == IF "N_out" \in s.attrs THEN s.N_out ELSE 1
\* The bounds of the model on the matrix products of a session: a call is made
\* while the session has counted fewer than this many.
within_budget(s) == s.iter < MaxIter
within_products(s) == s.iter < MaxProducts

\* The call op(args) ends as c says: the session, the generator, what was raised.
Returns(op, args, c) ==
    /\ self' = c.self
    /\ np_random' = c.np_random
    /\ last' = call_of(self, op, args, c.raised, c.ret)
\* The call repeats the one before it.
RepeatsSolve(c) ==
    /\ self' = c.self
    /\ np_random' = c.np_random
    /\ last' = [call_of(self, last.op, last.args, c.raised, c.ret) EXCEPT !.again = TRUE]
\* The same for the calls that leave the generator alone.
ReturnsProduct(op, args, c) ==
    /\ self' = c.self
    /\ last' = call_of(self, op, args, c.raised, c.ret)

Init ==
    /\ env \in Envs
    /\ \E kernel \in SessionKernels, nGPU \in {0, MaxGPU}, verbose \in BOOLEAN :
          /\ nGPU > 0 => env.gpu_available
          /\ self = BBMM(kernel, nGPU, verbose)
    /\ np_random = 0
    /\ last = no_call
    /\ mv = mv_idle
    /\ twin = no_twin

\* bbmm.initialize(X, noise, batch), on a session not yet initialized
Initialize ==
    /\ "N" \notin self.attrs
    /\ \E n \in {1, MaxSessionN}, noise \in Noises, batch \in {1, None} :
       \E X \in SessionPoints(n) :
          LET c == initialize(self, X, noise, batch)
          IN  /\ nonsingular(Knoise_matrix(self.kernel, X, noise))
              /\ self' = c.self
              /\ last' = call_of(self, "initialize",
                                  [X |-> X, noise |-> noise, batch |-> batch], c.raised, <<>>)
    /\ UNCHANGED <<twin, env, np_random, mv>>

\* bbmm.set_preconditioner(N_init, indices, nGPU=nGPU, random_seed=seed)
SetPreconditioner ==
    /\ "pred_nystroem" \notin self.attrs
    /\ \E N_init \in {1}, given \in BOOLEAN, nGPU \in {0, 1}, seed \in {1} :
          LET indices == IF given THEN [t \in Range0(1) |-> 0] ELSE <<>>
              c == set_preconditioner(self, np_random, N_init, given, indices, nGPU, seed)
          IN  /\ nGPU > 0 => self.GPU
              /\ self' = c.self
              /\ np_random' = c.np_random
              /\ last' = call_of(self, "set_preconditioner",
                                  [N_init |-> N_init, given |-> given, indices |-> indices,
                                   nGPU |-> nGPU, random_seed |-> seed], c.raised, <<>>)
    /\ UNCHANGED <<twin, env, mv>>

\* bbmm.mv_K(vec), bbmm.mv_Knoise(vec), bbmm.mv_preconditioned_Knoise(vec)
MatVec ==
    /\ within_products(self)
    /\ \E op \in {"mv_K", "mv_Knoise", "mv_preconditioned_Knoise"},
          vec \in {two_columns(rows_of(self))} :
          ReturnsProduct(op, [vec |-> vec],
                         IF op = "mv_K" THEN mv_K(self, vec)
                         ELSE IF op = "mv_Knoise" THEN mv_Knoise(self, vec)
                         ELSE mv_preconditioned_Knoise(self, vec))
    /\ UNCHANGED <<twin, env, np_random, mv>>

\* bbmm.mv_Knoise_multiple(v1, v2)
MatVecMultiple ==
    /\ within_products(self)
    /\ \E vs \in {<<unit(rows_of(self), rows_of(self) - 1), two_columns(rows_of(self))>>} :
          ReturnsProduct("mv_Knoise_multiple", [vs |-> vs], mv_Knoise_multiple(self, vs))
    /\ UNCHANGED <<twin, env, np_random, mv>>

\* bbmm.mv_dK_dps(i, vec)
MatVecGradient ==
    /\ within_products(self)
    /\ \E i \in Range0(nps), vec \in {two_columns(rows_of(self))} :
          ReturnsProduct("mv_dK_dps", [i |-> i, vec |-> vec], mv_dK_dps(self, i, vec))
    /\ UNCHANGED <<twin, env, np_random, mv>>

\* bbmm.solve_iter(Y, x0, ...)
SolveIter ==
    /\ within_products(self)
    /\ \E a \in LifecycleArgs(rows_of(self)) :
          Returns("solve_iter", a, solve_iter(self, np_random, env.gpu_available, a))
    /\ UNCHANGED <<twin, env, mv>>

\* bbmm.predict(X2, training)
Predict ==
    /\ \E training \in BOOLEAN :
       \E X2 \in SessionPoints(1) \cup (IF "X_CPU" \in self.attrs THEN {self.X_CPU} ELSE {}) :
          LET c == predict(self, X2, training)
          IN  last' = call_of(self, "predict", [X2 |-> X2, training |-> training],
                              c.raised, c.ret)
    /\ UNCHANGED <<twin, env, self, np_random, mv>>

\* bbmm.save(path)
Save ==
    /\ LET c == save(self)
       IN  last' = call_of(self, "save", <<>>, c.raised, c.ret)
    /\ UNCHANGED <<twin, env, self, np_random, mv>>

\* BBMM.load(path, GPU) of the archive just saved; the session it returns is the
\* result of the call.
Load ==
    /\ last.op = "save" /\ last.raised = "none"
    /\ \E GPU \in BOOLEAN :
          LET c == load(last.ret, GPU)
          IN  /\ GPU => env.gpu_available
              /\ last' = call_of(self, "load", [GPU |-> GPU], c.raised, c.self)
    /\ UNCHANGED <<twin, env, self, np_random, mv>>

Next ==
    \/ Initialize \/ SetPreconditioner \/ MatVec \/ MatVecMultiple \/ MatVecGradient
    \/ SolveIter \/ Predict \/ Save \/ Load

Spec == Init /\ [][Next]_vars

\* The calls that read the shared data of a prepared session.
readers == {"mv_K", "mv_Knoise", "mv_dK_dps", "mv_preconditioned_Knoise", "solve_iter",
            "predict"}
prepared(s) == "iter" \in s.attrs /\ "pred_nystroem" \in s.attrs
\* M^(-1/2) (K + noise) M^(-1/2) vec with the preconditioner pred, K the dense matrix.
preconditioned_product(s, pred, vec) ==
    mv_invhalf(pred, mat_add(dense_product(s, method_K, mv_invhalf(pred, vec)),
                             mat_scale(mv_invhalf(pred, vec), s.noise)))

\* C9 as stated: a solve_iter called on a session that is not initialized or has
\* no preconditioner raises, and leaves Y, the counter and w as they were.
C9_UnpreparedSolveFailsFast ==
    [][(last'.op = "solve_iter" /\ ~prepared(self)) =>
          /\ last'.raised # "none"
          /\ self'.Y = self.Y
          /\ self'.iter = self.iter
          /\ self'.w = self.w]_vars

\* C10: on a prepared session a product, a solve or a prediction leaves the
\* points, the partition, the noise and the preconditioner as they were, and
\* the preconditioned product is the one of the stored preconditioner.
C10_SharedDataReadOnly ==
    [][(last'.op \in readers /\ prepared(self)) =>
          /\ self'.X = self.X
          /\ self'.X_CPU = self.X_CPU
          /\ self'.division = self.division
          /\ self'.division_out = self.division_out
          /\ self'.noise = self.noise
          /\ self'.pred_nystroem = self.pred_nystroem
          /\ prepared(self')
          /\ (last'.op = "mv_preconditioned_Knoise" /\ last'.raised = "none") =>
                 last'.ret = preconditioned_product(self, self.pred_nystroem, last'.args.vec)]_vars
C10_Witness ==
    /\ last.op = "solve_iter" /\ last.raised = "none" /\ prepared(self)
    /\ self.pred_nystroem.landmark_rows # {}
    /\ self.n_division >= 2
    /\ self.krylov.iterations >= 2

\* C14: the session loaded from the archive of a solved session has the points,
\* the noise and the weight vector of the saved one, predicts what the saved
\* one predicts, and has no preconditioner and nothing of a solve but w.
C14_SaveLoadRoundTrip ==
    (last.op = "load") =>
        /\ last.raised = "none"
        /\ last.ret.X_CPU = self.X_CPU
        /\ X_of(last.ret, 0) = X_of(self, 0)
        /\ last.ret.noise = self.noise
        /\ last.ret.w = self.w
        /\ "w" \in last.ret.attrs
        /\ \A training \in BOOLEAN, X2 \in SessionPoints(1) \cup {self.X_CPU} :
               /\ predict(last.ret, X2, training) = predict(self, X2, training)
               /\ X2 = self.X_CPU => predict(last.ret, X2, training).raised = "none"
        /\ last.ret.attrs \cap {"pred_nystroem", "main_GPU", "Y", "random_vectors",
                                 "Y_transform", "krylov", "solution", "converged",
                                 "gradients"} = {}
C14_Witness ==
    /\ last.op = "load" /\ last.args.GPU /\ ~self.GPU
    /\ self.N = 2 /\ self.kernel.nout = 2 /\ self.batch = None
    /\ "gradients" \in self.attrs
    /\ self.w # self.Y

\* K(X2, X) w of the session's points and weight vector, plus noise * w if asked.
prediction(s, X2, training) ==
    LET Kw == dot(kernel_call(s.kernel, method_K, X2, s.X_CPU), s.w)
    IN  IF training THEN mat_add(Kw, mat_scale(s.w, s.noise)) ELSE Kw
predicted(X2, training) ==
    /\ last'.raised = "none"
    /\ last'.ret = prediction(self, X2, training)
    /\ self' = self
\* C15 as stated: on a session with a weight vector, predict(X2, training)
\* returns K(X2, X) w, plus noise * w when training is True, for every X2, and
\* changes nothing of the session.
C15_PredictForEveryX2 ==
    [][(last'.op = "predict" /\ "w" \in self.attrs) =>
          predicted(last'.args.X2, last'.args.training)]_vars
\* C15: on a session with a weight vector, predict(X2, training) returns
\* K(X2, X) w when training is False, and K(X2, X) w + noise * w when training
\* is True and X2 has as many points as X; it changes nothing of the session.
C15_PredictOnTrainingPoints ==
    [][(/\ last'.op = "predict" /\ "w" \in self.attrs
        /\ last'.args.training => len(last'.args.X2) = self.N) =>
          predicted(last'.args.X2, last'.args.training)]_vars
C15_Witness ==
    /\ last.op = "predict" /\ last.raised = "none" /\ last.args.training
    /\ self.N = 2 /\ last.args.X2 = self.X_CPU
    /\ last.ret = prediction(self, self.X_CPU, TRUE)
    /\ last.ret # prediction(self, self.X_CPU, FALSE)

\* The calls that are one call of mv_K or mv_dK_dps.
products == {"mv_K", "mv_Knoise", "mv_Knoise_multiple", "mv_dK_dps"}
\* The products a solve_iter with the arguments a makes beside the solver's:
\* line 513 for x0, lines 540 and 577 for the gradients.
products_beside(a) ==
    (IF a.x0_given THEN 1 ELSE 0) + (IF a.compute_gradient THEN 2 * nps ELSE 0)
\* C21: initialize sets iter to 0; a call of mv_K or mv_dK_dps, alone or under
\* mv_Knoise or a concatenated multi-matrix call, adds exactly 1; a solve_iter
\* adds its products; nothing else changes iter and it never decreases; after
\* one solve_iter without x0 and without gradients on a session whose iter is 0
\* it is the number of the solver's iterations.
C21_IterCountsProducts ==
    [][/\ (last'.op = "initialize" /\ last'.raised = "none") =>
              ("iter" \in self'.attrs /\ self'.iter = 0)
       /\ last'.op # "initialize" =>
              /\ self'.iter >= self.iter
              /\ "iter" \in self'.attrs <=> "iter" \in self.attrs
       /\ (last'.op \in products /\ "iter" \in self.attrs /\ last' # last) =>
              self'.iter = self.iter + 1
       /\ (last'.op = "mv_preconditioned_Knoise" /\ last'.raised = "none" /\ last' # last) =>
              self'.iter = self.iter + 1
       /\ last'.op \in {"set_preconditioner", "predict", "save", "load"} =>
              self'.iter = self.iter
       /\ (last'.op = "solve_iter" /\ last'.raised = "none") =>
              self'.iter = self.iter + self'.krylov.iterations + products_beside(last'.args)
       /\ (last'.op = "solve_iter" /\ last'.raised \in {"none", "NameError"}
              /\ ~last'.args.x0_given /\ ~last'.args.compute_gradient /\ self.iter = 0) =>
              self'.iter = self'.krylov.iterations]_vars
C21_Witness ==
    /\ last.op = "solve_iter" /\ last.raised = "none" /\ last.iter0 = 0
    /\ ~last.args.x0_given /\ ~last.args.compute_gradient
    /\ self.krylov.iterations >= 2 /\ self.iter = self.krylov.iterations
C21_WitnessMultiple ==
    /\ last.op = "mv_Knoise_multiple" /\ last.raised = "none" /\ self.iter = 1
    /\ Len(last.ret) = 2 /\ ncols(last.ret[1]) = 1 /\ ncols(last.ret[2]) = 2
    /\ last.ret[2] = mv_Knoise(self, last.args.vs[2]).ret

(***************************************************************************)
(* SpecSolve: a session that initialize and set_preconditioner have        *)
(* prepared, and the solves and predictions called on it.                  *)
(***************************************************************************)
InitSolve ==
    /\ env \in Envs
    /\ \E kernel \in SessionKernels, nGPU \in {0, MaxGPU}, n \in {1, MaxSessionN} :
       \E X \in SessionPoints(n), noise \in Noises, batch \in {1, MaxBatch, None},
          given \in BOOLEAN, pGPU \in {0, 1} :
          LET c == initialize(BBMM(kernel, nGPU, FALSE), X, noise, batch)
              d == set_preconditioner(c.self, 0, 1, given,
                                      IF given THEN [t \in Range0(1) |-> 0] ELSE <<>>, pGPU, 0)
          IN  /\ nGPU > 0 => env.gpu_available
              /\ pGPU > 0 => nGPU > 0
              /\ c.raised = "none"
              /\ nonsingular(Knoise_matrix(kernel, X, noise))
              /\ self = d.self
              /\ np_random = d.np_random
    /\ last = no_call
    /\ mv = mv_idle
    /\ twin = no_twin

\* bbmm.solve_iter(Y, block_size=..., ..., max_iter=...)
Solve ==
    /\ within_budget(self)
    /\ \E a \in SolveArgs(self.N_out) :
          /\ ~a.x0_given
          /\ Returns("solve_iter", a, solve_iter(self, np_random, env.gpu_available, a))
    /\ UNCHANGED <<twin, env, mv>>

\* bbmm.solve_iter(Y, x0=x0, ...)
SolveWarm ==
    /\ within_budget(self)
    /\ \E a \in SolveArgs(self.N_out) :
          /\ a.x0_given
          /\ Returns("solve_iter", a, solve_iter(self, np_random, env.gpu_available, a))
    /\ UNCHANGED <<twin, env, mv>>

\* The caller repeats the solve it has just made, with the same arguments.
SolveAgain ==
    /\ last.op = "solve_iter"
    /\ ~last.again
    /\ RepeatsSolve(solve_iter(self, np_random, env.gpu_available, last.args))
    /\ UNCHANGED <<twin, env, mv>>

NextSolve == Solve \/ SolveWarm \/ SolveAgain \/ Predict

SpecSolve == InitSolve /\ [][NextSolve]_vars

\* The arguments a without the warm start.
cold(a) == [a EXCEPT !.x0_given = FALSE, !.x0 = <<>>]
\* The solver ran in the call the record is of.
solver_ran == last.op = "solve_iter" /\ last.raised \in {"none", "NameError"}

\* C5 as stated: a solve_iter with x0 runs the solver with the max_iter it was
\* given and ends as the same call without x0 ends: the same value returned.
C5_WarmStartIsColdStart ==
    [][(last'.op = "solve_iter" /\ last'.args.x0_given) =>
          /\ last'.raised = solve_iter(self, np_random, env.gpu_available,
                                       cold(last'.args)).raised
          /\ last'.ret = solve_iter(self, np_random, env.gpu_available, cold(last'.args)).ret
          /\ last'.raised = "none" => self'.krylov.max_iter = last'.args.max_iter]_vars

\* C6 as stated: the solver of a solve_iter with a max_iter is given that
\* max_iter and makes at most max_iter iterations.
C6_SolveWithinMaxIter ==
    (solver_ran /\ last.args.max_iter # None) =>
        /\ self.krylov.max_iter = last.args.max_iter
        /\ self.krylov.iterations <= last.args.max_iter

\* C7 as stated: converged is True exactly when the solver stopped on the
\* residual, and a solve_iter whose solver stopped on max_iter raises nothing,
\* has converged False, and stores and returns the weight vector.
C7_MaxIterStopIsReported ==
    solver_ran =>
        /\ self.converged = self.krylov.bcg_converged
        /\ ~self.krylov.bcg_converged =>
               /\ last.raised = "none"
               /\ "w" \in self.attrs
               /\ self.w = last.ret

\* What the second of two equal calls of solve_iter repeats of the first: what is
\* raised or returned, the probes, the weight vector, the solver's record and flag.
repeats ==
    /\ last'.raised = last.raised
    /\ last'.ret = last.ret
    /\ self'.random_vectors = self.random_vectors
    /\ self'.w = self.w
    /\ self'.krylov = self.krylov
    /\ self'.converged = self.converged
\* C8 as stated: the second of two equal calls of solve_iter leaves the probes,
\* the weight vector and the iteration counter as the first left them.
C8_RepeatedSolveSameCounter ==
    [][(last'.again /\ ~last.again) => (repeats /\ self'.iter = self.iter)]_vars
\* C8: the second of two equal calls of solve_iter leaves the probes and the
\* weight vector as the first left them, makes as many solver iterations, and
\* adds to the iteration counter what the first added.
C8_RepeatedSolveRepeats ==
    [][(last'.again /\ ~last.again) =>
          (repeats /\ self'.iter - self.iter = self.iter - last.iter0)]_vars
C8_Witness ==
    /\ last.again /\ last.raised = "none"
    /\ last.args.random_seed = 1
    /\ self.krylov.iterations >= 2
    /\ self.iter = 2 * (self.iter - last.iter0)

\* (K + noise I) w - Y in exact arithmetic, for the session's points.
residual(s, w, Y) == mat_sub(dot(Knoise_matrix(s.kernel, s.X_CPU, s.noise), w), Y)
C19_WitnessGradient ==
    /\ last.op = "solve_iter" /\ last.raised = "none" /\ self.converged
    /\ last.args.compute_gradient /\ self.GPU /\ self.batch # None

\* C22 as stated: after a solve_iter that returned, with or without x0, the
\* weight vector stored in the session is the one the call returned.
C22_StoredWeightIsReturned ==
    (last.op = "solve_iter" /\ last.raised = "none") =>
        ("w" \in self.attrs /\ self.w = last.ret)

\* C23 as stated: after a solve_iter that returned, with or without x0, the
\* target stored in the session is the Y the caller passed.
C23_StoredTargetIsPassed ==
    (last.op = "solve_iter" /\ last.raised = "none") =>
        ("Y" \in self.attrs /\ self.Y = last.args.Y)

(***************************************************************************)
(* SpecVerbose: two sessions built alike but for the verbose flag, self the *)
(* verbose one and twin the quiet one, each in a process of its own.  Every *)
(* action makes the same call on both.                                      *)
(***************************************************************************)
InitVerbose ==
    /\ env \in Envs
    /\ \E kernel \in SessionKernels, nGPU \in {0, MaxGPU} :
          /\ nGPU > 0 => env.gpu_available
          /\ self = BBMM(kernel, nGPU, TRUE)
          /\ twin = [self |-> BBMM(kernel, nGPU, FALSE), np_random |-> 0]
    /\ np_random = 0
    /\ last = no_call
    /\ mv = mv_idle

\* initialize(X, noise, batch) on both sessions
BothInitialize ==
    /\ "N" \notin self.attrs /\ "N" \notin twin.self.attrs
    /\ \E n \in {1, MaxSessionN}, noise \in Noises, batch \in {1, None} :
       \E X \in SessionPoints(n) :
          LET c == initialize(self, X, noise, batch)
              d == initialize(twin.self, X, noise, batch)
          IN  /\ nonsingular(Knoise_matrix(self.kernel, X, noise))
              /\ self' = c.self
              /\ twin' = [twin EXCEPT !.self = d.self]
              /\ last' = call_of(self, "initialize",
                                  [X |-> X, noise |-> noise, batch |-> batch], c.raised, <<>>)
    /\ UNCHANGED <<env, np_random, mv>>

\* set_preconditioner(N_init, indices, nGPU=nGPU, random_seed=seed) on both sessions
BothSetPreconditioner ==
    /\ "pred_nystroem" \notin self.attrs /\ "pred_nystroem" \notin twin.self.attrs
    /\ \E N_init \in {1}, given \in BOOLEAN, nGPU \in {0, 1}, seed \in {1} :
          LET indices == IF given THEN [t \in Range0(1) |-> 0] ELSE <<>>
              c == set_preconditioner(self, np_random, N_init, given, indices, nGPU, seed)
              d == set_preconditioner(twin.self, twin.np_random, N_init, given, indices,
                                      nGPU, seed)
          IN  /\ nGPU > 0 => self.GPU
              /\ self' = c.self
              /\ np_random' = c.np_random
              /\ twin' = [self |-> d.self, np_random |-> d.np_random]
              /\ last' = call_of(self, "set_preconditioner",
                                  [N_init |-> N_init, given |-> given, indices |-> indices,
                                   nGPU |-> nGPU, random_seed |-> seed], c.raised, <<>>)
    /\ UNCHANGED <<env, mv>>

\* solve_iter(Y, x0, ...) on both sessions
BothSolveIter ==
    /\ within_products(self) /\ within_products(twin.self)
    /\ \E a \in LifecycleArgs(rows_of(self)) :
          LET d == solve_iter(twin.self, twin.np_random, env.gpu_available, a)
          IN  /\ Returns("solve_iter", a, solve_iter(self, np_random, env.gpu_available, a))
              /\ twin' = [self |-> d.self, np_random |-> d.np_random]
    /\ UNCHANGED <<env, mv>>

NextVerbose == BothInitialize \/ BothSetPreconditioner \/ BothSolveIter

SpecVerbose == InitVerbose /\ [][NextVerbose]_vars

\* What C16 compares of a session: w, the converged flag, the iteration
\* counter, the gradients and the preconditioner, as far as the session has them.
numerical(s) ==
    [has |-> s.attrs \cap {"w", "converged", "iter", "gradients", "pred_nystroem"},
     w |-> s.w, converged |-> s.converged, iter |-> s.iter, gradients |-> s.gradients,
     pred_nystroem |-> s.pred_nystroem]
\* C16 as stated: after the same calls of initialize, set_preconditioner and
\* solve_iter the verbose and the quiet session have the same w, converged
\* flag, iteration counter, gradients and preconditioner.
C16_VerboseChangesNothing == numerical(self) = numerical(twin.self)

(***************************************************************************)
(* SpecLayout: the right-hand side of lines 530-546 assembled from a target *)
(* Y, probes and gradient products, and the columns of lines 569-574 read   *)
(* from an array of its shape.                                              *)
(***************************************************************************)
MaxBlockSize == 2
LayoutInputs ==
    UNION {[Y : {unit(n, n - 1), unit(n, 0)},
            random_vectors : {np_random_normal(st, n, block_size) : st \in {0, 1, 2}},
            dps : {[i \in Range0(nps) |-> np_random_normal(st + i + 1, n, block_size)] :
                      st \in {0, 2}},
            block_size : {block_size}, compute_gradient : BOOLEAN] :
           n \in 1..MaxSessionN, block_size \in 1..MaxBlockSize}
InitLayout ==
    /\ env \in Envs
    /\ self = BBMM(CHOOSE kernel \in SessionKernels : kernel.nout = 1, 0, FALSE)
    /\ np_random = 0
    /\ \E a \in LayoutInputs : last = call_of(self, "inputs", a, "none", <<>>)
    /\ mv = mv_idle
    /\ twin = no_twin

\* Lines 535-546
AssembleBlockY ==
    /\ last.op = "inputs"
    /\ last' = call_of(self, "block_Y", last.args, "none",
                        block_Y_of(last.args.Y, last.args.random_vectors, last.args.dps,
                                   last.args.block_size, last.args.compute_gradient))
    /\ UNCHANGED <<env, self, np_random, mv, twin>>

\* Lines 569-574 and 589-591, on an array of the shape of block_Y
ReadSolution ==
    /\ last.op = "block_Y"
    /\ last' = call_of(self, "solution", last.args, "none",
                        solution_columns(last.ret, last.args.block_size,
                                         last.args.compute_gradient))
    /\ UNCHANGED <<env, self, np_random, mv, twin>>

NextLayout == AssembleBlockY \/ ReadSolution

SpecLayout == InitLayout /\ [][NextLayout]_vars

\* The column ranges C17 names, for block size b.
columns_Y == {0}
columns_I(b) == 1..b
columns_dps(b, i) == (b * (1 + i) + 1)..(b * (2 + i))
\* The columns that fall into an area of the model.
columns_of(area, width) == {c \in Range0(width) : in_area(c, area)}
\* C17: column 0 of the right-hand side is Y, columns 1..block_size are the
\* probes and, with gradients, columns block_size*(1+i)+1 .. block_size*(2+i)
\* are dK_dps[i].probes; the ranges are disjoint and cover the
\* block_size*(1+nps)+1 columns (block_size+1 without gradients), and the
\* solution is read from the same ranges.
C17_ProbeColumnsLayout ==
    LET a == last.args
        b == a.block_size
        width == IF a.compute_gradient THEN b * (1 + nps) + 1 ELSE b + 1
        hyper == IF a.compute_gradient THEN Range0(nps) ELSE {}
    IN  /\ last.op = "block_Y" =>
               /\ \A q \in DOMAIN last.ret : DOMAIN last.ret[q] = Range0(width)
               /\ \A q \in DOMAIN a.Y :
                      /\ last.ret[q][0] = a.Y[q][0]
                      /\ \A c \in columns_I(b) : last.ret[q][c] = a.random_vectors[q][c - 1]
                      /\ \A i \in hyper : \A c \in columns_dps(b, i) :
                             last.ret[q][c] = a.dps[i][q][c - (b * (1 + i) + 1)]
               /\ columns_of(area_Y, width) = columns_Y
               /\ columns_of(area_I(b), width) = columns_I(b)
               /\ \A i \in hyper : columns_of(area_dL_dps(b, i), width) = columns_dps(b, i)
               /\ columns_Y \cap columns_I(b) = {}
               /\ \A i \in hyper :
                      /\ columns_dps(b, i) \cap (columns_Y \cup columns_I(b)) = {}
                      /\ \A i2 \in hyper : i # i2 => columns_dps(b, i) \cap columns_dps(b, i2) = {}
               /\ columns_Y \cup columns_I(b) \cup UNION {columns_dps(b, i) : i \in hyper}
                      = Range0(width)
        /\ last.op = "solution" =>
               /\ last.ret.woodbury_vec_iter = a.Y
               /\ a.compute_gradient =>
                      /\ last.ret.woodbury_vec_I = a.random_vectors
                      /\ last.ret.woodbury_vec_dK_dps = a.dps
C17_Witness ==
    /\ last.op = "solution" /\ last.args.compute_gradient
    /\ last.args.block_size = 2 /\ len(last.args.Y) = 2
    /\ last.ret.woodbury_vec_dK_dps[1] = last.args.dps[1]
    /\ last.args.dps[1] # last.args.dps[0]
    /\ last.args.dps[0] # last.args.random_vectors

====
